---- MODULE Spec2Model ----
(***************************************************************************)
(* Squad backend (src/main.py): the relational store behind the HTTP       *)
(* handlers (register, create_h, like_h, join_h, del_h, send_dm) and the   *)
(* websocket ConnectionManager with the per-connection ws_endpoint task.   *)
(***************************************************************************)
EXTENDS Integers, Sequences, FiniteSets, TLC

\* ------------------------------------------------------------------ bounds
MaxHangouts == 1    \* rows the hangouts table may hold at once
MaxDms == 1         \* rows the direct_messages table may hold
MaxWs == 2          \* websocket connections opened over a run
MaxFrames == 1      \* text frames a client sends on one connection
MaxReq == 2         \* threadpool workers running the sync HTTP handlers
MaxRows == 2        \* participant rows one hangout id may collect

\* Capacity of a hangout as the specification's data model has it; the
\* source's Hangout and HangoutSchema carry no such field.
Capacity == 2

\* ------------------------------------------------------------------ inputs
Names == {"ann", "bob", "Qasim"}
NoUser == "nobody"
Ghost == "ghost"
HangoutIds == 1..(MaxHangouts + 1)
WS == 1..MaxWs
Req == 1..MaxReq
WsSubs == {"ann", "bob"}
Tokens == {[kind |-> "missing", sub |-> NoUser], [kind |-> "bad", sub |-> NoUser]}
          \cup {[kind |-> "jwt", sub |-> n] : n \in WsSubs \cup {Ghost}}
Bodies == {"hi", "@SquadBot"}
Replies == {"Truth or Dare?", "Who's buying?", "Drop a pin!", "Music?"}
\* the username of the bot's rows and events (the source's carries an emoji)
BotName == "SquadBot"

\* str.lower() on the strings the model uses
Lower(s) ==
  CASE s = "Qasim" -> "qasim"
    [] s = "@SquadBot" -> "@squadbot"
    [] OTHER -> s

VARIABLES
  users,               \* users_v8: set of [username, is_admin]
  hangouts,            \* hangouts_v8: sequence of [id, host_username, likes_data]
  participants,        \* participants_v8 by hangout_id: the usernames, in row order
  messages,            \* messages_v8 by hangout_id: [username, text], in row order
  dms,                 \* direct_messages_v8: sequence of [sender, receiver]
  active_connections,  \* manager.active_connections: hangout id -> list of websockets
  online_users,        \* manager.online_users
  pc,                  \* per websocket: position of its ws_endpoint task
  sess,                \* per websocket: the task's locals (token, hangout_id, username, data)
  bc,                  \* per websocket: the manager.broadcast call it is inside
  open,                \* per websocket: whether the client's transport is open
  inbox,               \* per websocket: the frames the client was sent, in order
  broadcasts,          \* per hangout id: the events handed to manager.broadcast, in order
  last,                \* the last hangout call: handler, caller, id, attendees before, response
  likeRun,             \* the current run of like_h calls by one user on one hangout
  removed,             \* the hangout ids whose row del_h deleted and create_h has not reused
  req                  \* per threadpool worker: the HTTP call it is inside, with its locals

store == <<users, hangouts, participants, messages, dms>>
mgr == <<active_connections, online_users>>
wsv == <<pc, sess, bc, open, inbox, broadcasts>>
hist == <<last, likeRun, removed>>
vars == <<users, hangouts, participants, messages, dms, active_connections,
          online_users, pc, sess, bc, open, inbox, broadcasts, last, likeRun,
          removed, req>>

\* ------------------------------------------------------------- sequences
Range(s) == {s[i] : i \in 1..Len(s)}

RECURSIVE ListRemove(_, _)
\* list.remove(x): drops the first occurrence of x
ListRemove(l, x) ==
  IF l = <<>> THEN <<>>
  ELSE IF Head(l) = x THEN Tail(l)
       ELSE <<Head(l)>> \o ListRemove(Tail(l), x)

\* ------------------------------------------------------------------ json
RECURSIVE JsonItems(_)
JsonItems(l) ==
  IF l = <<>> THEN <<>>
  ELSE IF Len(l) = 1 THEN <<Head(l)>>
       ELSE <<Head(l), ",">> \o JsonItems(Tail(l))

\* json.dumps of a list of strings, as its token sequence
Dumps(l) == <<"[">> \o JsonItems(l) \o <<"]">>

\* json.loads of such a token sequence
Loads(t) == [i \in 1..((Len(t) - 1) \div 2) |-> t[2 * i]]

\* Column(Text, default="[]")
LikesDefault == <<"[", "]">>

\* ----------------------------------------------------------------- store
\* the users_v8 row register writes: the admin flag is fixed at registration
UserRecord(name) == [username |-> name, is_admin |-> (Lower(name) = "qasim")]

\* db.query(User).filter(User.username == name).first()
UserRow(name) == {u \in users : u.username = name}

IsUser(name) == UserRow(name) # {}

\* db.query(Hangout).filter(Hangout.id == h).first()
HangoutRow(h) == {x \in Range(hangouts) : x.id = h}

HangoutExists(h) == HangoutRow(h) # {}

\* the primary key a new hangouts_v8 row gets (sqlite rowid: largest + 1)
NewHangoutId ==
  IF hangouts = <<>> THEN 1
  ELSE 1 + (CHOOSE m \in {x.id : x \in Range(hangouts)} :
              \A x \in Range(hangouts) : x.id <= m)

\* h.participants as feed lists it: the usernames of the hangout's rows, in order
Attendees(h) == participants[h]

\* the like list of hangout h as feed reads it
Likes(h) == Loads((CHOOSE x \in HangoutRow(h) : TRUE).likes_data)

NoCall == [op |-> "none", user |-> NoUser, hid |-> 0, before |-> <<>>, result |-> "none"]
NoRun == [user |-> NoUser, hid |-> 0, n |-> 0, orig |-> <<>>]

\* a threadpool worker with no call in hand
Idle == [op |-> "idle", at |-> "idle", user |-> NoUser, hid |-> 0, likes |-> <<>>]

\* ------------------------------------------------------------ HTTP handlers
\* create_h: the hangout row, then the host's participant row
create_h(u) ==
  /\ IsUser(u)
  /\ Len(hangouts) < MaxHangouts
  /\ LET new == [id |-> NewHangoutId, host_username |-> u, likes_data |-> LikesDefault]
     IN /\ hangouts' = Append(hangouts, new)
        /\ participants' = [participants EXCEPT ![new.id] = Append(@, u)]
        /\ last' = [op |-> "create", user |-> u, hid |-> new.id, before |-> <<>>,
                    result |-> "ok"]
        /\ removed' = removed \ {new.id}
  /\ UNCHANGED <<users, messages, dms, mgr, wsv, likeRun, req>>

\* like_h line 196-197: remove the caller if listed, append otherwise
ToggleBug(likes, u) == Append(likes, u)
Toggle(likes, u) ==
  IF u \in Range(likes) THEN ListRemove(likes, u) ELSE Append(likes, u)

like_h(u, h) ==
  /\ IsUser(u)
  /\ IF HangoutExists(h)
     THEN /\ hangouts' = [i \in 1..Len(hangouts) |->
                            IF hangouts[i].id = h
                            THEN [hangouts[i] EXCEPT
                                    !.likes_data = Dumps(Toggle(Loads(hangouts[i].likes_data), u))]
                            ELSE hangouts[i]]
          /\ likeRun' = IF likeRun.user = u /\ likeRun.hid = h /\ likeRun.n = 1
                        THEN [likeRun EXCEPT !.n = 2]
                        ELSE [user |-> u, hid |-> h, n |-> 1, orig |-> Likes(h)]
     ELSE UNCHANGED <<hangouts, likeRun>>
  /\ last' = [op |-> "like", user |-> u, hid |-> h, before |-> <<>>, result |-> "ok"]
  /\ UNCHANGED <<users, participants, messages, dms, mgr, wsv, removed, req>>

\* join_h line 204: is there a participant row for this hangout id and user
FoundBug(rows, u) == FALSE
Found(rows, u) == \E i \in 1..Len(rows) : rows[i] = u

join_h(u, h) ==
  /\ IsUser(u)
  /\ participants' = IF ~Found(participants[h], u)
                     THEN [participants EXCEPT ![h] = Append(@, u)]
                     ELSE participants
  /\ last' = [op |-> "join", user |-> u, hid |-> h, before |-> Attendees(h),
              result |-> "ok"]
  /\ UNCHANGED <<users, hangouts, messages, dms, mgr, wsv, likeRun, removed, req>>

\* del_h: host or admin; the delete cascades to participants and messages
del_h(u, h) ==
  /\ IsUser(u)
  /\ IF /\ HangoutExists(h)
        /\ \E x \in HangoutRow(h), r \in UserRow(u) :
             x.host_username = u \/ r.is_admin
     THEN /\ hangouts' = SelectSeq(hangouts, LAMBDA x : x.id # h)
          /\ participants' = [participants EXCEPT ![h] = <<>>]
          /\ messages' = [messages EXCEPT ![h] = <<>>]
          /\ likeRun' = IF likeRun.hid = h THEN NoRun ELSE likeRun
          /\ removed' = removed \cup {h}
     ELSE UNCHANGED <<hangouts, participants, messages, likeRun, removed>>
  /\ last' = [op |-> "delete", user |-> u, hid |-> h, before |-> <<>>, result |-> "ok"]
  /\ UNCHANGED <<users, dms, mgr, wsv, req>>

\* send_dm: persisted when the receiver exists; nothing is pushed to any connection
send_dm(u, r) ==
  /\ IsUser(u)
  /\ Len(dms) < MaxDms
  /\ dms' = IF IsUser(r) THEN Append(dms, [sender |-> u, receiver |-> r]) ELSE dms
  /\ UNCHANGED <<users, hangouts, participants, messages, mgr, wsv, hist, req>>

\* ------------------------------------------------------------------- init
NoEvent == [type |-> "none", user |-> NoUser, text |-> [n |-> 0, body |-> ""], online_users |-> {}]
NoBroadcast == [event |-> NoEvent, hid |-> 0, list |-> <<>>, i |-> 0, failed |-> {}, then |-> "none"]

InitStore ==
  /\ users = {UserRecord(n) : n \in Names}
  /\ hangouts = <<>>
  /\ participants = [h \in HangoutIds |-> <<>>]
  /\ messages = [h \in HangoutIds |-> <<>>]
  /\ dms = <<>>
  /\ last = NoCall
  /\ likeRun = NoRun
  /\ removed = {}
  /\ req = [r \in Req |-> Idle]

InitWs ==
  /\ active_connections = [h \in HangoutIds |-> <<>>]
  /\ online_users = {}
  /\ pc = [w \in WS |-> "new"]
  /\ sess = [w \in WS |-> [token |-> [kind |-> "none", sub |-> NoUser], hangout_id |-> 0,
                           username |-> NoUser, frames |-> 0,
                           data |-> [n |-> 0, body |-> ""]]]
  /\ bc = [w \in WS |-> NoBroadcast]
  /\ open = [w \in WS |-> FALSE]
  /\ inbox = [w \in WS |-> <<>>]
  /\ broadcasts = [h \in HangoutIds |-> <<>>]

Init == InitStore /\ InitWs

\* ------------------------------------------------------ ConnectionManager
StatusEvent(online) ==
  [type |-> "status", user |-> NoUser, text |-> [n |-> 0, body |-> ""], online_users |-> online]

MsgEvent(user, text) ==
  [type |-> "msg", user |-> user, text |-> text, online_users |-> {}]

\* broadcast line 115: what becomes of an exception raised by send_json
SendErrorPolicyBug == "raise"
SendErrorPolicy == "pass"

\* broadcast lines 113-115, one turn of the loop for the call b of task w: send
\* the event to the next connection of the copied list; the await is where the
\* task may be suspended. An exception that is not swallowed ends the task.
Attempt(w, b) ==
  LET c == b.list[b.i + 1]
      sent == open[c]
  IN /\ inbox' = IF sent THEN [inbox EXCEPT ![c] = Append(@, b.event)] ELSE inbox
     /\ IF sent \/ SendErrorPolicy = "pass"
        THEN /\ bc' = [bc EXCEPT ![w] = [b EXCEPT !.i = b.i + 1,
                                                  !.failed = IF sent THEN @ ELSE @ \cup {c}]]
             /\ pc' = [pc EXCEPT ![w] = "send"]
             /\ open' = open
        ELSE /\ bc' = [bc EXCEPT ![w] = [b EXCEPT !.failed = @ \cup {c}]]
             /\ pc' = [pc EXCEPT ![w] = "closed"]
             /\ open' = [open EXCEPT ![w] = FALSE]

\* manager.broadcast(ev, h) called by task w, which goes on at `then` when the
\* call returns: the list is copied and the first send is made at once.
StartBroadcast(w, h, ev, then, list) ==
  LET b == [event |-> ev, hid |-> h, list |-> list, i |-> 0, failed |-> {}, then |-> then]
  IN /\ broadcasts' = [broadcasts EXCEPT ![h] = Append(@, ev)]
     /\ IF list = <<>>
        THEN /\ bc' = [bc EXCEPT ![w] = b]
             /\ pc' = [pc EXCEPT ![w] = IF then = "reply" THEN "send" ELSE then]
             /\ UNCHANGED <<inbox, open>>
        ELSE Attempt(w, b)

\* ------------------------------------------------------------- ws_endpoint
\* jwt.decode succeeds
DecodeOk(tok) == tok.kind = "jwt"

\* ws_endpoint lines 254-264: the token decodes and names a user
AuthenticatedBug(tok) == DecodeOk(tok)
Authenticated(tok) == DecodeOk(tok) /\ IsUser(tok.sub)

\* line 275: "@squadbot" in data.lower()
HasTriggerBug(data) == data.body = "@squadbot"
HasTrigger(data) == Lower(data.body) = "@squadbot"

\* the text of the k-th frame a client sends on connection w
Frame(w, k, body) == [n |-> (w - 1) * MaxFrames + k, body |-> body]

\* db.add(Message(...)); db.commit()
PersistBug(msgs, h, row) == msgs
Persist(msgs, h, row) == [msgs EXCEPT ![h] = Append(@, row)]

\* Connections, rooms and the two plain users are interchangeable here, so
\* they are taken in order: connection w opens after the lower ones, room h is
\* used after the lower rooms, bob's token after ann's.
InOrder(w, h, tok) ==
  /\ \A v \in WS : v < w => pc[v] # "new"
  /\ \A g \in HangoutIds : g < h => \E v \in WS : sess[v].hangout_id = g
  /\ tok.sub = "bob" => \E v \in WS : sess[v].token.sub = "ann"

\* a client opens a websocket to /ws/{h}?token=tok
client_open(w, h, tok) ==
  /\ pc[w] = "new"
  /\ InOrder(w, h, tok)
  /\ pc' = [pc EXCEPT ![w] = "connecting"]
  /\ open' = [open EXCEPT ![w] = TRUE]
  /\ sess' = [sess EXCEPT ![w].token = tok, ![w].hangout_id = h]
  /\ UNCHANGED <<store, mgr, bc, inbox, broadcasts, hist, req>>

\* the client closes its transport
client_close(w) ==
  /\ pc[w] \in {"send", "recv"}
  /\ open[w]
  /\ open' = [open EXCEPT ![w] = FALSE]
  /\ UNCHANGED <<store, mgr, pc, sess, bc, inbox, broadcasts, hist, req>>

\* ws_endpoint up to the first await inside manager.connect's broadcast_status
ws_connect(w) ==
  /\ pc[w] = "connecting"
  /\ LET tok == sess[w].token
         h == sess[w].hangout_id
     IN IF ~Authenticated(tok)
        THEN /\ pc' = [pc EXCEPT ![w] = "closed"]
             /\ open' = [open EXCEPT ![w] = FALSE]
             /\ UNCHANGED <<mgr, sess, bc, inbox, broadcasts>>
        ELSE /\ sess' = [sess EXCEPT ![w].username = tok.sub]
             /\ active_connections' = [active_connections EXCEPT ![h] = Append(@, w)]
             /\ online_users' = online_users \cup {tok.sub}
             /\ StartBroadcast(w, h, StatusEvent(online_users'), "recv",
                               active_connections'[h])
  /\ UNCHANGED <<store, hist, req>>

\* lines 270-273: a text frame arrives; persist it, then broadcast it
ws_receive(w, body) ==
  /\ pc[w] = "recv"
  /\ open[w]
  /\ sess[w].frames < MaxFrames
  /\ LET h == sess[w].hangout_id
         data == Frame(w, sess[w].frames + 1, body)
     IN /\ sess' = [sess EXCEPT ![w].frames = @ + 1, ![w].data = data]
        /\ messages' = Persist(messages, h, [username |-> sess[w].username, text |-> data])
        /\ StartBroadcast(w, h, MsgEvent(sess[w].username, data), "reply",
                          active_connections[h])
  /\ UNCHANGED <<users, hangouts, participants, dms, mgr, hist, req>>

\* the awaited send_json returned: the next turn of the broadcast loop, or, the
\* loop over, the code after the broadcast call (lines 275-279 after a frame's)
ws_resume(w) ==
  /\ pc[w] = "send"
  /\ LET b == bc[w]
         h == sess[w].hangout_id
     IN IF b.i < Len(b.list)
        THEN Attempt(w, b) /\ UNCHANGED <<messages, broadcasts>>
        ELSE IF b.then = "reply" /\ HasTrigger(sess[w].data)
        THEN \E reply \in Replies :
               LET text == [n |-> 0, body |-> reply]
               IN /\ messages' = Persist(messages, h, [username |-> BotName, text |-> text])
                  /\ StartBroadcast(w, h, MsgEvent(BotName, text), "recv",
                                    active_connections[h])
        ELSE /\ pc' = [pc EXCEPT ![w] = IF b.then = "reply" THEN "recv" ELSE b.then]
             /\ UNCHANGED <<messages, bc, open, inbox, broadcasts>>
  /\ UNCHANGED <<users, hangouts, participants, dms, mgr, sess, hist, req>>

\* manager.disconnect lines 105-107
Deregister(conns, h, w) == [conns EXCEPT ![h] = ListRemove(@, w)]

\* manager.disconnect lines 108-109
Offline(online, name) == online \ {name}

\* lines 281-283: receive_text raises WebSocketDisconnect
ws_disconnect(w) ==
  /\ pc[w] = "recv"
  /\ ~open[w]
  /\ LET h == sess[w].hangout_id
     IN /\ active_connections' = Deregister(active_connections, h, w)
        /\ online_users' = Offline(online_users, sess[w].username)
        /\ StartBroadcast(w, h, StatusEvent(online_users'), "closed",
                          active_connections'[h])
  /\ UNCHANGED <<store, sess, hist, req>>

\* lines 284-287: any other exception in the loop (a failed commit, a frame
\* that is not text): the socket is closed, the manager is not told
ws_error(w) ==
  /\ pc[w] = "recv"
  /\ open[w]
  /\ pc' = [pc EXCEPT ![w] = "closed"]
  /\ open' = [open EXCEPT ![w] = FALSE]
  /\ UNCHANGED <<store, mgr, sess, bc, inbox, broadcasts, hist, req>>

Next ==
  \/ \E w \in WS, h \in HangoutIds, tok \in Tokens : client_open(w, h, tok)
  \/ \E w \in WS : client_close(w)
  \/ \E w \in WS : ws_connect(w)
  \/ \E w \in WS, body \in Bodies : ws_receive(w, body)
  \/ \E w \in WS : ws_resume(w)
  \/ \E w \in WS : ws_disconnect(w)
  \/ \E w \in WS : ws_error(w)

Spec == Init /\ [][Next]_vars

\* websocket connections with direct messages sent meanwhile
NextDm ==
  \/ \E w \in WS, h \in HangoutIds, tok \in Tokens : client_open(w, h, tok)
  \/ \E w \in WS : client_close(w)
  \/ \E w \in WS : ws_connect(w)
  \/ \E w \in WS : ws_resume(w)
  \/ \E w \in WS : ws_disconnect(w)
  \/ \E u \in Names, r \in Names : send_dm(u, r)

SpecDm == Init /\ [][NextDm]_vars

\* ------------------------------------------ strictly sequential HTTP calls
NextJoin ==
  \/ \E u \in Names : create_h(u)
  \/ \E u \in Names, h \in HangoutIds : join_h(u, h)
  \/ \E u \in Names, h \in HangoutIds : del_h(u, h)

SpecJoin == Init /\ [][NextJoin]_vars

NextLike ==
  \/ \E u \in Names : create_h(u)
  \/ \E u \in Names, h \in HangoutIds : like_h(u, h)
  \/ \E u \in Names, h \in HangoutIds : del_h(u, h)

SpecLike == Init /\ [][NextLike]_vars

\* ------------------------------------------- the manager's disconnect alone
\* ConnectionManager.disconnect(websocket, hangout_id, username), called with
\* any connection, room and name, registered or not
manager_disconnect(w, h, name) ==
  /\ active_connections' = Deregister(active_connections, h, w)
  /\ online_users' = Offline(online_users, name)
  /\ UNCHANGED <<store, wsv, hist, req>>

NextMgr ==
  \/ \E w \in WS, h \in HangoutIds, tok \in Tokens : client_open(w, h, tok)
  \/ \E w \in WS : client_close(w)
  \/ \E w \in WS : ws_connect(w)
  \/ \E w \in WS : ws_resume(w)
  \/ \E w \in WS : ws_disconnect(w)
  \/ \E w \in WS, h \in HangoutIds, name \in WsSubs : manager_disconnect(w, h, name)

SpecMgr == Init /\ [][NextMgr]_vars

\* ------------------------ one chat session, hangouts created and deleted
NextDel ==
  \/ \E h \in HangoutIds, tok \in Tokens : client_open(1, h, tok)
  \/ \E w \in WS : ws_connect(w)
  \/ \E w \in WS, body \in Bodies : ws_receive(w, body)
  \/ \E w \in WS : ws_resume(w)
  \/ \E u \in Names : create_h(u)
  \/ \E u \in Names, h \in HangoutIds : del_h(u, h)

SpecDel == Init /\ [][NextDel]_vars

\* ------------------------------ HTTP handlers running on threadpool workers
\* The handlers are plain `def`s: each call runs on a worker thread with its
\* own database session, and calls on different workers interleave between
\* their queries and their commits.

\* the participant rows that calls in flight are about to add for hangout id h
Pending(h) ==
  Cardinality({r \in Req : req[r].hid = h /\ req[r].at \in {"created", "checked"}})

\* create_h lines 184-186: the hangout row is committed
create_h_hangout(r, u) ==
  /\ req[r] = Idle
  /\ IsUser(u)
  /\ Len(hangouts) < MaxHangouts
  /\ LET new == [id |-> NewHangoutId, host_username |-> u, likes_data |-> LikesDefault]
     IN /\ Len(participants[new.id]) + Pending(new.id) < MaxRows
        /\ hangouts' = Append(hangouts, new)
        /\ removed' = removed \ {new.id}
        /\ req' = [req EXCEPT ![r] = [op |-> "create", at |-> "created", user |-> u,
                                      hid |-> new.id, likes |-> <<>>]]
  /\ UNCHANGED <<users, participants, messages, dms, mgr, wsv, last, likeRun>>

\* create_h lines 187-188: the host's participant row is committed
create_h_participant(r) ==
  /\ req[r].at = "created"
  /\ participants' = [participants EXCEPT ![req[r].hid] = Append(@, req[r].user)]
  /\ req' = [req EXCEPT ![r].at = "done"]
  /\ UNCHANGED <<users, hangouts, messages, dms, mgr, wsv, hist>>

\* join_h line 204: the query for the caller's participant row
join_h_query(r, u, h) ==
  /\ req[r] = Idle
  /\ IsUser(u)
  /\ Found(participants[h], u) \/ Len(participants[h]) + Pending(h) < MaxRows
  /\ req' = [req EXCEPT ![r] = [op |-> "join",
                                at |-> IF Found(participants[h], u) THEN "done"
                                       ELSE "checked",
                                user |-> u, hid |-> h, likes |-> <<>>]]
  /\ UNCHANGED <<store, mgr, wsv, hist>>

\* join_h lines 205-206: the row is added and committed
join_h_commit(r) ==
  /\ req[r].at = "checked"
  /\ participants' = [participants EXCEPT ![req[r].hid] = Append(@, req[r].user)]
  /\ req' = [req EXCEPT ![r].at = "done"]
  /\ UNCHANGED <<users, hangouts, messages, dms, mgr, wsv, hist>>

\* like_h lines 193-195: the hangout row is read and its like list parsed
like_h_load(r, u, h) ==
  /\ req[r] = Idle
  /\ IsUser(u)
  /\ req' = [req EXCEPT ![r] = IF HangoutExists(h)
                                THEN [op |-> "like", at |-> "loaded", user |-> u,
                                      hid |-> h, likes |-> Likes(h)]
                                ELSE [op |-> "like", at |-> "done", user |-> u,
                                      hid |-> h, likes |-> <<>>]]
  /\ UNCHANGED <<store, mgr, wsv, hist>>

\* like_h lines 196-198: the list the call writes back is made from the list
\* it read, whatever the row holds by now
LikesToSaveBug(loaded, current, u) == Toggle(current, u)
LikesToSave(loaded, current, u) == Toggle(loaded, u)

\* like_h lines 196-199: toggle, dump, commit (UPDATE ... WHERE id = h)
like_h_commit(r) ==
  /\ req[r].at = "loaded"
  /\ hangouts' = [i \in 1..Len(hangouts) |->
                    IF hangouts[i].id = req[r].hid
                    THEN [hangouts[i] EXCEPT
                            !.likes_data = Dumps(LikesToSave(req[r].likes,
                                                             Loads(hangouts[i].likes_data),
                                                             req[r].user))]
                    ELSE hangouts[i]]
  /\ req' = [req EXCEPT ![r].at = "done"]
  /\ UNCHANGED <<users, participants, messages, dms, mgr, wsv, hist>>

\* return {"msg": "ok"}: the worker is free for the next call
http_return(r) ==
  /\ req[r].at = "done"
  /\ req' = [req EXCEPT ![r] = Idle]
  /\ UNCHANGED <<store, mgr, wsv, hist>>

NextJoinPool ==
  \/ \E r \in Req, u \in Names : create_h_hangout(r, u)
  \/ \E r \in Req : create_h_participant(r)
  \/ \E r \in Req, u \in Names, h \in HangoutIds : join_h_query(r, u, h)
  \/ \E r \in Req : join_h_commit(r)
  \/ \E r \in Req : http_return(r)

SpecJoinPool == Init /\ [][NextJoinPool]_vars

NextLikePool ==
  \/ \E r \in Req, u \in Names : create_h_hangout(r, u)
  \/ \E r \in Req : create_h_participant(r)
  \/ \E r \in Req, u \in Names, h \in HangoutIds : like_h_load(r, u, h)
  \/ \E r \in Req : like_h_commit(r)
  \/ \E r \in Req : http_return(r)

SpecLikePool == Init /\ [][NextLikePool]_vars

\* ------------------------------------------------------------------ claims
\* C1: with calls made strictly one after another, a hangout never has more
\* attendees than its capacity.
C1_AttendeesWithinCapacity ==
  \A h \in HangoutIds : HangoutExists(h) => Len(Attendees(h)) <= Capacity

\* C2: a join by an identity that is not an attendee, on a hangout whose
\* attendee count equals its capacity, is answered RoomFull and leaves the
\* attendee list as it was.
C2_FullJoinRejected ==
  (/\ last.op = "join"
   /\ HangoutExists(last.hid)
   /\ last.user \notin Range(last.before)
   /\ Len(last.before) = Capacity)
  => (last.result = "RoomFull" /\ Attendees(last.hid) = last.before)

\* C3: with calls made strictly one after another, a join by an identity that
\* is already an attendee (the host included) leaves the attendee list as it was.
C3_RejoinKeepsAttendees ==
  (last.op = "join" /\ last.user \in Range(last.before))
  => Attendees(last.hid) = last.before

\* the host of a hangout with another attendee has just joined it again
C3_Witness ==
  /\ last.op = "join"
  /\ \E x \in HangoutRow(last.hid) : x.host_username = last.user
  /\ last.user \in Range(last.before)
  /\ Len(last.before) >= 2
  /\ Attendees(last.hid) = last.before

\* C7: two like_h calls in a row by one identity on one hangout, with no other
\* like_h between them, leave the like set as it was before the first.
C7_DoubleToggleRestores ==
  likeRun.n = 2 => Range(Likes(likeRun.hid)) = Range(likeRun.orig)

\* a double toggle by an identity that was listed, among others: the set is
\* restored though the list order is not
C7_Witness ==
  /\ likeRun.n = 2
  /\ likeRun.user \in Range(likeRun.orig)
  /\ Len(likeRun.orig) >= 2
  /\ Likes(likeRun.hid) # likeRun.orig
  /\ Range(Likes(likeRun.hid)) = Range(likeRun.orig)


\* the event a message row is broadcast as
RowEvent(row) == MsgEvent(row.username, row.text)

\* the connection whose client sent the frame with this text
Owner(text) == ((text.n - 1) \div MaxFrames) + 1

\* the task of connection w is registered with the manager
Registered(w) == pc[w] \in {"send", "recv"}

\* C4: a broadcast to a room in which a connection's send fails reaches every
\* other connection of the room, wherever the dead one stands in the list, and
\* returns normally: the loop runs to the end of the list and only closed
\* connections were skipped.
C4_BroadcastReachesLive ==
  \A w \in WS :
    LET b == bc[w]
    IN /\ pc[w] # "send" => b.i = Len(b.list)
       /\ \A j \in 1..b.i :
            b.list[j] \notin b.failed => b.event \in Range(inbox[b.list[j]])
       /\ \A c \in b.failed : ~open[c]

\* a finished broadcast over two connections whose first send failed and whose
\* second was delivered
C4_Witness ==
  \E w \in WS :
    LET b == bc[w]
    IN /\ pc[w] = "recv"
       /\ Len(b.list) = 2
       /\ b.i = 2
       /\ b.failed = {b.list[1]}
       /\ b.event \in Range(inbox[b.list[2]])

\* C5: once a broadcast has returned, no connection whose send failed during
\* it is still in the room's connection list.
C5_FailedConnectionsRemoved ==
  \A w \in WS :
    (pc[w] # "send" /\ bc[w].hid # 0)
    => \A c \in bc[w].failed : c \notin Range(active_connections[bc[w].hid])

\* C6: the chat messages broadcast to a room are the messages of its persisted
\* history, and every chat message a client was sent is in the history of its
\* room.
C6_PersistedIffBroadcast ==
  /\ \A h \in HangoutIds :
       {e \in Range(broadcasts[h]) : e.type = "msg"}
         = {RowEvent(r) : r \in Range(messages[h])}
  /\ \A w \in WS : \A e \in Range(inbox[w]) :
       e.type = "msg" => \E r \in Range(messages[sess[w].hangout_id]) : RowEvent(r) = e

\* a client has been sent a user's message and the bot's reply, both persisted
C6_Witness ==
  \E w \in WS :
    LET h == sess[w].hangout_id
    IN /\ h # 0
       /\ Len(messages[h]) >= 2
       /\ \E e \in Range(inbox[w]) : e.type = "msg" /\ e.user = BotName
       /\ \E e \in Range(inbox[w]) : e.type = "msg" /\ e.user # BotName
       /\ \A r \in Range(messages[h]) : RowEvent(r) \in Range(broadcasts[h])

\* a text that contains the trigger phrase, in any case
ContainsPhrase(text) == text.body \in {"@squadbot", "@SquadBot"}

IsTriggerRow(row) == row.username # BotName /\ ContainsPhrase(row.text)

\* the task that received this row's frame is still broadcasting it
ReplyPending(row) ==
  LET w == Owner(row.text)
  IN pc[w] = "send" /\ bc[w].then = "reply" /\ bc[w].event = RowEvent(row)

NumRows(rows, Test(_)) == Cardinality({i \in 1..Len(rows) : Test(rows[i])})

IsBotRow(row) == row.username = BotName

Devices(name) == {w \in WS : Registered(w) /\ open[w] /\ sess[w].username = name}

DmEvent(sender) ==
  [type |-> "dm", user |-> sender, text |-> [n |-> 0, body |-> ""], online_users |-> {}]

\* C9: a direct message sent to an identity that has two registered connections
\* is delivered to each of the two, once.
C9_DmReachesBothDevices ==
  [][\A u \in Names, r \in Names :
       (send_dm(u, r) /\ Cardinality(Devices(r)) = 2)
       => \A w \in Devices(r) : inbox'[w] = Append(inbox[w], DmEvent(u))]_vars

\* a credential the endpoint is to accept: a token that decodes and names a user
ValidCredential(tok) == tok.kind = "jwt" /\ tok.sub \in {u.username : u \in users}

\* C10: a connection whose credential is missing, invalid or names no user is
\* closed straight from connecting: it is in no room list, its task has a
\* username and a broadcast never, it was sent nothing and persisted nothing,
\* and the name its token carries is not online.
C10_RejectedSessionLeavesNoTrace ==
  \A w \in WS :
    (pc[w] \notin {"new", "connecting"} /\ ~ValidCredential(sess[w].token))
    => /\ pc[w] = "closed"
       /\ \A h \in HangoutIds : w \notin Range(active_connections[h])
       /\ sess[w].username = NoUser
       /\ sess[w].token.sub \notin online_users
       /\ bc[w] = NoBroadcast
       /\ inbox[w] = <<>>
       /\ sess[w].frames = 0
       /\ \A h \in HangoutIds : \A r \in Range(messages[h]) :
            IsBotRow(r) \/ Owner(r.text) # w

\* a token naming no user was turned away from a room another connection is in
C10_Witness ==
  \E w, v \in WS :
    /\ pc[w] = "closed"
    /\ sess[w].token = [kind |-> "jwt", sub |-> Ghost]
    /\ pc[v] = "recv"
    /\ sess[v].hangout_id = sess[w].hangout_id
    /\ bc[w] = NoBroadcast

\* C11: a session that was registered with the manager and has ended, by
\* whichever path, has its connection in no room's list.
C11_ClosedSessionDeregistered ==
  \A w \in WS :
    (pc[w] = "closed" /\ sess[w].username # NoUser)
    => \A h \in HangoutIds : w \notin Range(active_connections[h])

\* the identities holding at least one registered connection to room h
RoomIdentities(h) == {sess[w].username : w \in Range(active_connections[h])}

\* C12: for every room with a registered connection, the online-user set the
\* manager tracks, and sends to that room in status events, is the set of
\* identities holding at least one registered connection to that room.
C12_OnlineIsRoomMembership ==
  \A h \in HangoutIds :
    active_connections[h] # <<>> => online_users = RoomIdentities(h)

\* C13: whenever a hangout row exists, the usernames of its participant rows
\* include its host, also between the two commits of create_h.
C13_HostIsAttendee ==
  \A h \in HangoutIds :
    \A x \in HangoutRow(h) : x.host_username \in Range(Attendees(h))

\* C14: after a join_h call with a hangout id that no hangout row has, the
\* participant rows of that id are what they were before the call.
C14_MissingHangoutJoinIsNoOp ==
  (last.op = "join" /\ ~HangoutExists(last.hid))
  => participants[last.hid] = last.before

\* C15: a hangout row disappears only in a del_h call by its host or by an
\* admin, and a hangout id whose row was deleted has no message rows for as
\* long as no new hangout takes the id, whatever the sessions of its room do.
C15_RemovedHangoutHasNoMessages ==
  [][/\ \A h \in HangoutIds :
          (HangoutExists(h) /\ ~HangoutExists(h)')
          => \E u \in Names :
               /\ del_h(u, h)
               /\ \E x \in HangoutRow(h), r \in UserRow(u) :
                    x.host_username = u \/ r.is_admin
     /\ \A h \in removed' : messages'[h] = <<>>]_vars

\* C16: manager.disconnect for a connection that is not in the room's list
\* leaves every room's list and the online-user set as they were.
C16_AbsentLeaveChangesNothing ==
  [][\A w \in WS, h \in HangoutIds, name \in WsSubs :
       (manager_disconnect(w, h, name) /\ w \notin Range(active_connections[h]))
       => UNCHANGED mgr]_vars

\* C17: the chat events a connection was sent by live broadcast are in the
\* order of their rows in the room's persisted history: of any two of them,
\* the one sent first has a row before a row of the one sent second.
C17_LiveOrderIsHistoryOrder ==
  \A w \in WS :
    \A i, j \in 1..Len(inbox[w]) :
      (i < j /\ inbox[w][i].type = "msg" /\ inbox[w][j].type = "msg")
      => LET rows == messages[sess[w].hangout_id]
         IN \E a, b \in 1..Len(rows) :
              /\ a < b
              /\ RowEvent(rows[a]) = inbox[w][i]
              /\ RowEvent(rows[b]) = inbox[w][j]

\* calls q and r toggle for different users on one hangout and read the same
\* like list; q has saved, r has not saved yet
StaleLoad(q, r) ==
  /\ q # r
  /\ req[q].op = "like" /\ req[q].at = "done"
  /\ req[r].op = "like" /\ req[r].at = "loaded"
  /\ req[q].hid = req[r].hid
  /\ req[q].user # req[r].user
  /\ req[q].likes = req[r].likes
  /\ HangoutExists(req[r].hid)

\* C18: when two calls by different users toggle on one hangout and both read
\* the like list before either saves, the second save writes a list in which
\* the first caller is listed exactly if it was before both calls: the first
\* toggle is lost.
C18_SecondSaveLosesFirstToggle ==
  [][\A q, r \in Req :
       (StaleLoad(q, r) /\ like_h_commit(r))
       => LET h == req[r].hid
          IN /\ (req[q].user \in Range(Likes(h)')) = (req[q].user \in Range(req[r].likes))
             /\ (req[r].user \in Range(Likes(h)')) # (req[r].user \in Range(req[r].likes))]_vars

\* both calls have saved, from the same list read, and the stored list has the
\* later caller's toggle only
C18_Witness ==
  \E q, r \in Req :
    /\ q # r
    /\ req[q].op = "like" /\ req[q].at = "done"
    /\ req[r].op = "like" /\ req[r].at = "done"
    /\ req[q].hid = req[r].hid
    /\ req[q].user # req[r].user
    /\ req[q].likes = req[r].likes
    /\ HangoutExists(req[r].hid)
    /\ Likes(req[r].hid) = Toggle(req[r].likes, req[r].user)
    /\ Likes(req[r].hid) # Toggle(Toggle(req[r].likes, req[q].user), req[r].user)
    /\ req[q].user \notin Range(Likes(req[r].hid))
    /\ req[q].user \notin Range(req[q].likes)

\* C19: a session that was registered with the manager and has ended, by
\* whichever path, ended with a status broadcast to its room: the last
\* broadcast its task made is the status event of its leaving.
C19_LeaveIsAnnounced ==
  \A w \in WS :
    (pc[w] = "closed" /\ sess[w].username # NoUser)
    => /\ bc[w].then = "closed"
       /\ bc[w].event.type = "status"
       /\ bc[w].hid = sess[w].hangout_id

\* C20: no username has two participant rows for one hangout id, also when
\* two join_h calls of one user for one hangout overlap.
C20_AttendeeListedOnce ==
  \A h \in HangoutIds :
    \A i, j \in 1..Len(participants[h]) :
      participants[h][i] = participants[h][j] => i = j

====
